---- MODULE Spec2Model ----
(***************************************************************************)
(* Model of bin/opt.py: geometry optimisation of a molecule with an        *)
(* optional dihedral constraint (ASE BFGS + FixInternals + ORB calculator).*)
(*                                                                         *)
(* Numbers.  Floats are modelled in exact integer arithmetic:              *)
(*   - a position coordinate is an integer number of grid units; the       *)
(*     printed precision (8 decimals) is PosPerPrint grid units;           *)
(*   - an angle is an integer number of angle units, AngleUnit of them to  *)
(*     the degree; arccos is rounded to the nearest degree through a table *)
(*     of cos^2 at the half degrees;                                       *)
(*   - a float has a significand of SigBits bits: angles of 2^SigBits      *)
(*     units and more are spaced 2, 4, ... units apart and the sum in the  *)
(*     % of a negative angle is rounded to the nearest of them;            *)
(*   - a float is the record [kind, v]: kind "num" carries the value v,    *)
(*     kind "nan" is IEEE NaN, kind "none" is Python's None;               *)
(*   - forces are in units of 0.01 eV/A, so fmax = 0.05 is Fmax = 5.       *)
(***************************************************************************)
EXTENDS Integers, Sequences, FiniteSets, TLC

\* ------------------------------------------------------------------ bounds
MaxSteps == 2
MaxRuns == 2
GeomMax == 1
AngleMax == 400

\* ------------------------------------------------------- program constants
Fmax == 5
PosPerPrint == 3
CosScale == 100
AngleUnit == 16
SigBits == 11
Turn == 360 * AngleUnit

\* ------------------------------------------------------------------ floats
NaN == [kind |-> "nan", v |-> 0]
None == [kind |-> "none", v |-> 0]
Num(n) == [kind |-> "num", v |-> n]
IsNum(x) == x.kind = "num"
IsNaN(x) == x.kind = "nan"

\* ----------------------------------------------------------- vector algebra
Sub(u, v) == <<u[1] - v[1], u[2] - v[2], u[3] - v[3]>>
Dot(u, v) == u[1] * v[1] + u[2] * v[2] + u[3] * v[3]
Cross(u, v) == <<u[2] * v[3] - u[3] * v[2],
                 u[3] * v[1] - u[1] * v[3],
                 u[1] * v[2] - u[2] * v[1]>>
NormSq(u) == Dot(u, u)
Sign(n) == IF n > 0 THEN 1 ELSE IF n < 0 THEN -1 ELSE 0
Abs(n) == IF n < 0 THEN -n ELSE n

\* cos^2 of (k + 1/2) degrees, k = 0..89, times CosScale^2, rounded up
HalfDegreeCosSq ==
  <<10000, 9994, 9981, 9963, 9939, 9909, 9872, 9830, 9782, 9728, 9668,
    9603, 9532, 9456, 9374, 9286, 9194, 9096, 8994, 8886, 8774, 8657,
    8536, 8410, 8281, 8147, 8010, 7868, 7724, 7576, 7425, 7270, 7114,
    6954, 6792, 6628, 6462, 6295, 6125, 5955, 5783, 5610, 5436, 5262,
    5088, 4913, 4739, 4565, 4391, 4218, 4046, 3876, 3706, 3539, 3373,
    3209, 3047, 2887, 2731, 2576, 2425, 2277, 2133, 1991, 1854, 1720,
    1591, 1465, 1344, 1227, 1115, 1007, 905, 807, 715, 627, 545, 469, 398,
    333, 273, 219, 171, 129, 92, 62, 38, 20, 7, 1>>

\* floor(CosScale^2 * num / den) for 0 <= num, 0 < den, without overflow
ScaledRatio(num, den) ==
  LET q1 == (CosScale * num) \div den
      r1 == (CosScale * num) % den
  IN  CosScale * q1 + (CosScale * r1) \div den

\* The element of a one-element set.  { f(v) : v \in {e} } evaluates e
\* once and binds its value to v.
The(S) == CHOOSE x \in S : TRUE

Clip(c) == IF c > CosScale * CosScale THEN CosScale * CosScale ELSE c

\* Variant of UnitDot that forgets to normalise n2 (line 57 dropped).
UnitDotUnnormalised(n1, n2) ==
  The({ Sign(t[1]) * Clip(ScaledRatio(t[1] * t[1], t[2])) :
          t \in {<<Dot(n1, n2), NormSq(n1)>>} })

\* n1 /= |n1|; n2 /= |n2|; clip(dot(n1, n2), -1, 1): the cosine, kept as
\* sign(cos) * cos^2 * CosScale^2 with t = <<n1.n2, |n1|^2 |n2|^2>>.
\* Only called with non-zero n1 and n2.
UnitDot(n1, n2) ==
  The({ Sign(t[1]) * Clip(ScaledRatio(t[1] * t[1], t[2])) :
          t \in {<<Dot(n1, n2), NormSq(n1) * NormSq(n2)>>} })

\* np.degrees(np.arccos(cos_phi)), to the nearest degree, in 0..180
ArccosDegrees(c) ==
  The({ IF v >= 0
        THEN Cardinality({k \in 1..90 : v < HalfDegreeCosSq[k]})
        ELSE 180 - Cardinality({k \in 1..90 : 0 - v < HalfDegreeCosSq[k]}) :
          v \in {c} })

\* phi and its sign from the bond vector b2 and the normals n1, n2
\* (lines 56-66); a zero normal makes n /= 0 produce NaN, which propagates
\* through dot, clip, arccos, sign and degrees: nothing is raised.
SignedAngle(b2, n1, n2) ==
  IF NormSq(n1) = 0 \/ NormSq(n2) = 0
  THEN NaN
  ELSE LET phi == ArccosDegrees(UnitDot(n1, n2))
           sign == Sign(Dot(b2, Cross(n1, n2)))
       IN  Num(AngleUnit * (IF sign # 0 THEN phi * sign ELSE phi))

\* calc_dihedral (lines 44-67), with w = <<b2, n1, n2>>
calc_dihedral(p1, p2, p3, p4) ==
  The({ SignedAngle(w[1], w[2], w[3]) :
          w \in {<<Sub(p3, p2),
                   Cross(Sub(p2, p1), Sub(p3, p2)),
                   Cross(Sub(p3, p2), Sub(p4, p3))>>} })

\* Spacing of the floats at magnitude v >= 0, in angle units.
RECURSIVE Ulp(_)
Ulp(v) == IF v < 2^SigBits THEN 1 ELSE 2 * Ulp(v \div 2)

Representable(v) == Abs(v) % Ulp(Abs(v)) = 0

\* The float nearest to v >= 0, ties to the even significand.
RoundFloat(v) ==
  The({ IF 2 * (v % u) < u THEN v - (v % u)
        ELSE IF 2 * (v % u) > u THEN v - (v % u) + u
        ELSE IF (v \div u) % 2 = 0 THEN v - (v % u)
        ELSE v - (v % u) + u :
          u \in {Ulp(v)} })

\* v % 360 on floats: fmod(v, 360) is exact and has the sign of v; when it
\* is negative, 360 is added to it and the sum is rounded.
FloatMod360(v) ==
  IF v >= 0 THEN v % Turn
  ELSE The({ IF m = 0 THEN 0 ELSE RoundFloat(Turn - m) :
               m \in {(0 - v) % Turn} })

\* C-style remainder (sign of the dividend), without the later correction.
TruncatedRemainder360(x) ==
  IF IsNum(x) THEN Num(Sign(x.v) * (Abs(x.v) % Turn)) ELSE x

\* actual_angle_deg % 360, then += 360 if negative (lines 139-141).
\* NaN % 360 is NaN and NaN < 0 is False.
normalize_to_0_360(x) ==
  IF IsNum(x)
  THEN The({ Num(IF r < 0 THEN r + Turn ELSE r) : r \in {FloatMod360(x.v)} })
  ELSE x

\* ------------------------------------------------------------------- state
VARIABLES
  args,                    \* parsed command line; input_file is its content
  oracle,                  \* the force field behind ORBCalculator
  atoms,                   \* the ase.Atoms object being optimised
  dihedral_indices_0based, \* <<>> while unset
  target_angle,            \* float, None while unset
  dyn,                     \* the BFGS optimizer: state, nsteps, max_steps
  energy,                  \* calculator cache: energy of the last evaluation
  forces,                  \* forces of the last evaluation, after adjust_forces
  evals,                   \* number of oracle evaluations so far
  final_energy,            \* float, None while unset
  actual_angle_deg,        \* float, None while unset
  clean_atoms,             \* the plain copy that is written out
  outfile,                 \* the output file of this run
  pc,                      \* position in the script
  error,                   \* the exception that ended the run, "" if none
  runs,                    \* number of times the script has been started
  geom                     \* harness for the geometry functions

runVars == <<args, oracle, atoms, dihedral_indices_0based, target_angle, dyn,
             energy, forces, evals, final_energy, actual_angle_deg,
             clean_atoms, outfile, pc, error, runs>>
vars == <<args, oracle, atoms, dihedral_indices_0based, target_angle, dyn,
          energy, forces, evals, final_energy, actual_angle_deg,
          clean_atoms, outfile, pc, error, runs, geom>>

\* ------------------------------------------------------------------ inputs
ZeroCell == "zero"
NoPbc == <<FALSE, FALSE, FALSE>>

\* Contents of the input files the model is run on.
InputFiles ==
  { [symbols |-> <<"C", "C", "O", "H">>,
     positions |-> <<<<0, 3, 0>>, <<0, 0, 0>>, <<3, 0, 0>>, <<3, 3, 3>>>>,
     cell |-> ZeroCell, pbc |-> NoPbc],
    [symbols |-> <<"N", "C", "C", "H">>,
     positions |-> <<<<1, 2, 1>>, <<0, 0, 0>>, <<3, 0, 0>>, <<3, 3, 3>>>>,
     cell |-> ZeroCell, pbc |-> NoPbc],
    [symbols |-> <<"C", "N", "C", "F">>,
     positions |-> <<<<0, 3, 0>>, <<0, 0, 0>>, <<3, 0, 0>>, <<3, 3, 2>>>>,
     cell |-> ZeroCell, pbc |-> NoPbc],
    [symbols |-> <<"H", "C", "C", "O">>,
     positions |-> <<<<0, 0, 0>>, <<1, 0, 0>>, <<2, 0, 0>>, <<3, 1, 0>>>>,
     cell |-> "cubic", pbc |-> <<TRUE, TRUE, TRUE>>] }

\* --dihedral_indices: <<>> when the option is absent, else four 1-based
\* integers as typed (argparse checks only that they are integers).
IndexArgs ==
  { <<>>, <<1, 2, 3, 4>>, <<4, 3, 2, 1>>, <<1, 2, 2, 4>>, <<2, 3, 4, 5>>,
    <<0, 1, 2, 3>> }

\* --dihedral_angle: None when absent
AngleArgs == { None, Num(-90 * AngleUnit), Num(450 * AngleUnit) }

\* --charge and --spin
ChargeSpinArgs == { <<0, 1>>, <<-1, 2>> }

\* The force fields the model is run with: harmonic wells of stiffness k
\* around a reference geometry ref.
Oracles ==
  { [k |-> 3,
     ref |-> <<<<0, 3, 0>>, <<0, 0, 0>>, <<3, 0, 0>>, <<2, 2, 2>>>>],
    [k |-> 5,
     ref |-> <<<<0, 3, 0>>, <<0, 0, 0>>, <<3, 0, 0>>, <<3, 3, 3>>>>] }

\* ------------------------------------------------------------ energy oracle
\* The calculator fails (numerical blow-up) when two atoms coincide.
OracleFails(pos) ==
  \E i, j \in 1..Len(pos) : i < j /\ pos[i] = pos[j]

RECURSIVE SumNormSq(_, _, _)
SumNormSq(pos, ref, n) ==
  IF n = 0 THEN 0
  ELSE NormSq(Sub(pos[n], ref[n])) + SumNormSq(pos, ref, n - 1)

OracleEnergy(orc, pos) == orc.k * SumNormSq(pos, orc.ref, Len(pos))

OracleForces(orc, pos) ==
  [i \in 1..Len(pos) |->
     <<orc.k * (orc.ref[i][1] - pos[i][1]),
       orc.k * (orc.ref[i][2] - pos[i][2]),
       orc.k * (orc.ref[i][3] - pos[i][3])>>]

NaNForces == [kind |-> "nan", f |-> <<>>]
NumForces(f) == [kind |-> "num", f |-> f]

\* -------------------------------------------------------- index arithmetic
\* numpy indexing of an array of n rows with a 0-based index i0: negative
\* indices count from the end, anything outside -n..n-1 raises IndexError.
InRange(i0, n) == -n <= i0 /\ i0 < n
Row(i0, n) == IF i0 >= 0 THEN i0 + 1 ELSE n + i0 + 1
AllInRange(idx0, n) == \A m \in 1..Len(idx0) : InRange(idx0[m], n)
ZeroBased(idx1) == [m \in 1..Len(idx1) |-> idx1[m] - 1]

\* calc_dihedral(p[i], p[j], p[k], p[l]) for in-range i, j, k, l
DihedralAt(pos, idx0) ==
  LET n == Len(pos)
  IN  calc_dihedral(pos[Row(idx0[1], n)], pos[Row(idx0[2], n)],
                    pos[Row(idx0[3], n)], pos[Row(idx0[4], n)])

\* Mis-labelled provenance.
AngleSourceSwapped(angle) ==
  IF angle.kind = "none" THEN "user_specified" ELSE "fixed_current"

\* angle_source (line 158)
AngleSource(angle) ==
  IF angle.kind = "none" THEN "fixed_current" ELSE "user_specified"

\* ------------------------------------------------------------------ BFGS
Terminal(s) == s \in {"Converged", "MaxStepsExceeded"}

RECURSIVE MaxNormSq(_, _)
MaxNormSq(f, n) ==
  IF n = 0 THEN 0
  ELSE LET m == MaxNormSq(f, n - 1)
           v == NormSq(f[n])
       IN  IF v > m THEN v ELSE m

RECURSIVE MaxAbsComponent(_, _)
MaxAbsComponent(f, n) ==
  IF n = 0 THEN 0
  ELSE LET m == MaxAbsComponent(f, n - 1)
           a == Abs(f[n][1])
           b == Abs(f[n][2])
           c == Abs(f[n][3])
           v == IF a >= b /\ a >= c THEN a ELSE IF b >= c THEN b ELSE c
       IN  IF v > m THEN v ELSE m

\* Convergence with fmax left unsquared against the squared norm.
convergedUnsquared(fr) ==
  fr.kind = "num" /\ MaxNormSq(fr.f, Len(fr.f)) < Fmax

\* Convergence judged per component with <=, as a mistaken criterion.
convergedByComponent(fr) ==
  fr.kind = "num" /\ MaxAbsComponent(fr.f, Len(fr.f)) <= Fmax

\* Optimizer.converged: the largest per-atom force norm is < fmax.
\* A comparison with NaN is False.
converged(fr) ==
  fr.kind = "num" /\ MaxNormSq(fr.f, Len(fr.f)) < Fmax * Fmax

\* FixInternals.adjust_forces: removes from the forces their component along
\* the gradient of the dihedral.  On the grid the removed part is either
\* nothing or the force on one of the four constrained atoms.  A dihedral
\* with a zero normal has a NaN gradient, which makes every force NaN.
AdjustedForces(raw, pos, idx0) ==
  IF IsNaN(DihedralAt(pos, idx0))
  THEN { NaNForces }
  ELSE { NumForces(raw) } \cup
       { NumForces([raw EXCEPT ![Row(idx0[m], Len(pos))] = <<0, 0, 0>>]) :
           m \in 1..4 }

\* atoms.get_forces(): the calculator's forces, then each constraint's
\* adjust_forces.
SeenForces(raw, a) ==
  IF a.constraint.active
  THEN AdjustedForces(raw, a.positions, a.constraint.indices)
  ELSE { NumForces(raw) }

\* ------------------------------------------------------------------ output
NoAtoms == [symbols |-> <<>>, positions |-> <<>>, cell |-> ZeroCell,
            pbc |-> NoPbc]
NoComment == [keys |-> <<>>, dihedral |-> <<>>, actual_angle |-> None,
              energy |-> None, charge |-> 0, spin |-> 0,
              constraint_source |-> ""]
NoFile == [written |-> FALSE, natoms |-> 0, comment |-> NoComment,
           lines |-> <<>>]

\* A coordinate printed with 8 decimals: the nearest multiple of PosPerPrint
\* (coordinates of the model are >= 0).
Format8(x) == PosPerPrint * ((2 * x + PosPerPrint) \div (2 * PosPerPrint))

\* Atoms(symbols=..., positions=..., cell=..., pbc=...) without the symbols'
\* order being kept.
CleanAtomsReversed(a) ==
  [symbols |-> [i \in 1..Len(a.symbols) |->
                  a.symbols[Len(a.symbols) + 1 - i]],
   positions |-> a.positions, cell |-> a.cell, pbc |-> a.pbc]

\* clean_atoms (lines 148-153)
CleanAtoms(a) ==
  [symbols |-> a.symbols, positions |-> a.positions, cell |-> a.cell,
   pbc |-> a.pbc]

\* comment (lines 156-161); angles and energies print exactly at the
\* resolution of the model, NaN prints as nan.
Comment(a, use_constraint, angle, e) ==
  IF use_constraint
  THEN [keys |-> <<"dihedral", "actual_angle", "energy", "charge", "spin",
                   "constraint_source">>,
        dihedral |-> a.dihedral_indices, actual_angle |-> angle,
        energy |-> e, charge |-> a.charge, spin |-> a.spin,
        constraint_source |-> AngleSource(a.dihedral_angle)]
  ELSE [keys |-> <<"energy", "charge", "spin">>,
        dihedral |-> <<>>, actual_angle |-> None,
        energy |-> e, charge |-> a.charge, spin |-> a.spin,
        constraint_source |-> ""]

\* the file written by lines 164-168
XYZFile(ca, c) ==
  [written |-> TRUE, natoms |-> Len(ca.symbols), comment |-> c,
   lines |-> [i \in 1..Len(ca.symbols) |->
                [symbol |-> ca.symbols[i],
                 position |-> <<Format8(ca.positions[i][1]),
                                Format8(ca.positions[i][2]),
                                Format8(ca.positions[i][3])>>]]]

\* ase.io.read of a plain XYZ file: no cell, no periodicity
ReadXYZ(f) ==
  [symbols |-> [i \in 1..f.natoms |-> f.lines[i].symbol],
   positions |-> [i \in 1..f.natoms |-> f.lines[i].position],
   cell |-> ZeroCell, pbc |-> NoPbc]

\* ------------------------------------------------------------------- init
NoConstraint == [active |-> FALSE, target |-> None, indices |-> <<>>]
Unread == [symbols |-> <<>>, positions |-> <<>>, cell |-> ZeroCell,
           pbc |-> NoPbc, info |-> [charge |-> 0, spin |-> 0],
           constraint |-> NoConstraint]
NoDyn == [state |-> "None", nsteps |-> 0, max_steps |-> 0]
IdleGeom == [pc |-> "idle", p |-> <<>>, x |-> None, phi |-> None,
             rev |-> None, norm |-> None]

Fresh ==
  /\ atoms = Unread
  /\ dihedral_indices_0based = <<>>
  /\ target_angle = None
  /\ dyn = NoDyn
  /\ energy = 0
  /\ forces = NaNForces
  /\ evals = 0
  /\ final_energy = None
  /\ actual_angle_deg = None
  /\ clean_atoms = NoAtoms
  /\ outfile = NoFile
  /\ pc = "start"
  /\ error = ""

Init ==
  /\ \E f \in InputFiles, ix \in IndexArgs, an \in AngleArgs,
        cs \in ChargeSpinArgs :
       args = [input_file |-> f, charge |-> cs[1], spin |-> cs[2],
               dihedral_indices |-> ix, dihedral_angle |-> an]
  /\ oracle \in Oracles
  /\ Fresh
  /\ runs = 1
  /\ geom = IdleGeom

\* Variant in which a failing run leaves a started output file behind.
AbortLeavingFile(e) ==
  /\ pc' = "failed"
  /\ error' = e
  /\ outfile' = [NoFile EXCEPT !.written = TRUE]

\* An uncaught exception ends the script; nothing after it runs.
Abort(e) ==
  /\ pc' = "failed"
  /\ error' = e
  /\ outfile' = outfile

\* --------------------------------------------------------- lines 85 to 114
\* read the molecule, attach charge and spin, decide on the constraint
Setup ==
  /\ pc = "start"
  /\ LET read == [symbols |-> args.input_file.symbols,
                  positions |-> args.input_file.positions,
                  cell |-> args.input_file.cell,
                  pbc |-> args.input_file.pbc,
                  info |-> [charge |-> args.charge, spin |-> args.spin],
                  constraint |-> NoConstraint]
         n == Len(read.positions)
         idx0 == ZeroBased(args.dihedral_indices)
     IN  IF args.dihedral_indices # <<>>
         THEN /\ dihedral_indices_0based' = idx0
              /\ IF args.dihedral_angle.kind = "none" /\ ~AllInRange(idx0, n)
                 THEN \* p[i] raises IndexError
                      /\ Abort("IndexError")
                      /\ atoms' = read
                      /\ target_angle' = target_angle
                 ELSE /\ \E t \in {IF args.dihedral_angle.kind = "none"
                                    THEN DihedralAt(read.positions, idx0)
                                    ELSE args.dihedral_angle} :
                           /\ target_angle' = t
                           /\ atoms' = [read EXCEPT !.constraint =
                                          [active |-> TRUE, target |-> t,
                                           indices |-> idx0]]
                      /\ pc' = "ready"
                      /\ UNCHANGED <<error, outfile>>
         ELSE /\ atoms' = read
              /\ pc' = "ready"
              /\ UNCHANGED <<dihedral_indices_0based, target_angle, error,
                             outfile>>
  /\ UNCHANGED <<args, oracle, dyn, energy, forces, evals, final_energy,
                 actual_angle_deg, clean_atoms, runs, geom>>

\* -------------------------------------------------------- lines 127 to 128
\* dyn = BFGS(atoms); dyn.run(fmax=0.05) up to its first convergence test:
\* the initial energy/force evaluation.  FixInternals looks at the indices
\* for the first time in adjust_forces, after the calculator has run.
RunStart ==
  /\ pc = "ready"
  /\ evals' = evals + 1
  /\ IF OracleFails(atoms.positions)
     THEN /\ Abort("OracleFailure")
          /\ UNCHANGED <<dyn, energy, forces>>
     ELSE /\ energy' = OracleEnergy(oracle, atoms.positions)
          /\ IF atoms.constraint.active
                /\ ~AllInRange(atoms.constraint.indices, Len(atoms.positions))
             THEN /\ Abort("IndexError")
                  /\ UNCHANGED <<dyn, forces>>
             ELSE /\ forces' \in SeenForces(
                                   OracleForces(oracle, atoms.positions), atoms)
                  /\ dyn' = [state |-> "Initialized", nsteps |-> 0,
                             max_steps |-> MaxSteps]
                  /\ pc' = "running"
                  /\ UNCHANGED <<error, outfile>>
  /\ UNCHANGED <<args, oracle, atoms, dihedral_indices_0based, target_angle,
                 final_energy, actual_angle_deg, clean_atoms, runs, geom>>

Looping == pc = "running" /\ dyn.state \in {"Initialized", "Stepping"}

\* the loop of irun ends because the forces satisfy the criterion
Converge ==
  /\ Looping
  /\ converged(forces)
  /\ dyn' = [dyn EXCEPT !.state = "Converged"]
  /\ UNCHANGED <<args, oracle, atoms, dihedral_indices_0based, target_angle,
                 energy, forces, evals, final_energy, actual_angle_deg,
                 clean_atoms, outfile, pc, error, runs, geom>>

\* the loop of irun ends because nsteps has reached max_steps
Exhaust ==
  /\ Looping
  /\ ~converged(forces)
  /\ dyn.nsteps >= dyn.max_steps
  /\ dyn' = [dyn EXCEPT !.state = "MaxStepsExceeded"]
  /\ UNCHANGED <<args, oracle, atoms, dihedral_indices_0based, target_angle,
                 energy, forces, evals, final_energy, actual_angle_deg,
                 clean_atoms, outfile, pc, error, runs, geom>>

\* The displacements a quasi-Newton step is drawn from: one atom moves one
\* grid unit along an axis, in the direction of its force (F . dr > 0).
Displaced(pos, fr) ==
  { [pos EXCEPT ![a][ax] = pos[a][ax] + Sign(fr.f[a][ax])] :
      <<a, ax>> \in { w \in (1..Len(pos)) \X (1..3) : fr.f[w[1]][w[2]] # 0 } }

\* One iteration of the loop: BFGS.step (set_positions, through the
\* constraint's adjust_positions), nsteps += 1, and the evaluation of the
\* new geometry.  adjust_positions raises ValueError when its iteration
\* does not reach the target (always so with NaN).
Step ==
  /\ Looping
  /\ ~converged(forces)
  /\ dyn.nsteps < dyn.max_steps
  /\ \/ /\ atoms.constraint.active
        /\ Abort("ValueError")
        /\ UNCHANGED <<atoms, dyn, energy, forces, evals>>
     \/ /\ forces.kind = "num"
        /\ ~(atoms.constraint.active /\ IsNaN(atoms.constraint.target))
        /\ \E newpos \in Displaced(atoms.positions, forces) :
             /\ atoms' = [atoms EXCEPT !.positions = newpos]
             /\ evals' = evals + 1
             /\ IF OracleFails(newpos)
                THEN /\ Abort("OracleFailure")
                     /\ UNCHANGED <<dyn, energy, forces>>
                ELSE /\ energy' = OracleEnergy(oracle, newpos)
                     /\ forces' \in SeenForces(OracleForces(oracle, newpos),
                                               atoms')
                     /\ dyn' = [dyn EXCEPT !.state = "Stepping",
                                           !.nsteps = dyn.nsteps + 1]
                     /\ UNCHANGED <<pc, error, outfile>>
  /\ UNCHANGED <<args, oracle, dihedral_indices_0based, target_angle,
                 final_energy, actual_angle_deg, clean_atoms, runs, geom>>

\* -------------------------------------------------------- lines 130 to 170
\* The value dyn.run returns is dropped.  The final energy comes from the
\* calculator's cache (the geometry has not changed since it was evaluated).
Finish ==
  /\ pc = "running"
  /\ Terminal(dyn.state)
  /\ \E use_constraint \in {args.dihedral_indices # <<>>} :
       \E angle \in {IF use_constraint
                      THEN normalize_to_0_360(
                             DihedralAt(atoms.positions,
                                        dihedral_indices_0based))
                      ELSE None} :
         \E ca \in {CleanAtoms(atoms)} :
           /\ final_energy' = Num(energy)
           /\ actual_angle_deg' = angle
           /\ clean_atoms' = ca
           /\ outfile' = XYZFile(ca, Comment(args, use_constraint, angle,
                                             Num(energy)))
  /\ pc' = "done"
  /\ UNCHANGED <<args, oracle, atoms, dihedral_indices_0based, target_angle,
                 dyn, energy, forces, evals, error, runs, geom>>

\* The script is started again on the file a converged unconstrained run
\* has written, with the same options otherwise.
RerunOnOutput ==
  /\ pc = "done"
  /\ dyn.state = "Converged"
  /\ args.dihedral_indices = <<>>
  /\ runs < MaxRuns
  /\ args' = [args EXCEPT !.input_file = ReadXYZ(outfile)]
  /\ runs' = runs + 1
  /\ atoms' = Unread
  /\ dihedral_indices_0based' = <<>>
  /\ target_angle' = None
  /\ dyn' = NoDyn
  /\ energy' = 0
  /\ forces' = NaNForces
  /\ evals' = 0
  /\ final_energy' = None
  /\ actual_angle_deg' = None
  /\ clean_atoms' = NoAtoms
  /\ outfile' = NoFile
  /\ pc' = "start"
  /\ error' = ""
  /\ UNCHANGED <<oracle, geom>>

Next ==
  \/ Setup
  \/ RunStart
  \/ Converge
  \/ Step
  \/ Exhaust
  \/ Finish
  \/ RerunOnOutput

Spec == Init /\ [][Next]_vars

\* The interpreter runs the script to its end; starting it again is up to
\* the user.
RunToEnd == Setup \/ RunStart \/ Converge \/ Step \/ Exhaust \/ Finish
FairSpec == Spec /\ WF_vars(RunToEnd)

\* ------------------------------------------------- the geometry functions
\* calc_dihedral and the normalisation of lines 139-141 on their own: the
\* four points are drawn from a grid, the angle from the floats of up to
\* AngleMax degrees.
Grid == (0..GeomMax) \X (0..GeomMax) \X (0..GeomMax)

NoArgs == [input_file |-> NoAtoms, charge |-> 0, spin |-> 1,
           dihedral_indices |-> <<>>, dihedral_angle |-> None]

GeomInit ==
  /\ args = NoArgs
  /\ oracle = [k |-> 0, ref |-> <<>>]
  /\ Fresh
  /\ runs = 0
  /\ \/ \E p1 \in Grid, p2 \in Grid, p3 \in Grid, p4 \in Grid :
          geom = [IdleGeom EXCEPT !.pc = "points", !.p = <<p1, p2, p3, p4>>]
     \/ \E x \in (0 - AngleMax * AngleUnit)..(AngleMax * AngleUnit) :
          /\ Representable(x)
          /\ geom = [IdleGeom EXCEPT !.pc = "angle", !.x = Num(x)]

\* calc_dihedral on the points in the order given and in reversed order
GeomDihedral ==
  /\ geom.pc = "points"
  /\ geom' = [geom EXCEPT
                !.pc = "measured",
                !.phi = calc_dihedral(geom.p[1], geom.p[2], geom.p[3],
                                      geom.p[4]),
                !.rev = calc_dihedral(geom.p[4], geom.p[3], geom.p[2],
                                      geom.p[1])]
  /\ UNCHANGED runVars

\* the normalisation, applied to a computed dihedral or to a given angle
GeomNormalize ==
  /\ geom.pc \in {"measured", "angle"}
  /\ LET x == IF geom.pc = "measured" THEN geom.phi ELSE geom.x
     IN  geom' = [geom EXCEPT !.pc = "normalized", !.x = x,
                              !.norm = normalize_to_0_360(x)]
  /\ UNCHANGED runVars

GeomNext == GeomDihedral \/ GeomNormalize

GeomSpec == GeomInit /\ [][GeomNext]_vars

\* ================================================================= claims
InputPositions == args.input_file.positions
NInput == Len(args.input_file.positions)
UseConstraint == args.dihedral_indices # <<>>
Started == pc \in {"ready", "running", "done", "failed"}
InputForces == OracleForces(oracle, InputPositions)

\* C1: with indices and no --dihedral_angle the constraint's target is the
\* dihedral of the input geometry (not of a later one) and the report says
\* fixed_current; with an explicit angle the target is that angle and the
\* report says user_specified.
C1_TargetAndSource ==
  /\ (atoms.constraint.active /\ args.dihedral_angle.kind = "none") =>
       /\ atoms.constraint.target =
            DihedralAt(InputPositions, ZeroBased(args.dihedral_indices))
       /\ target_angle = atoms.constraint.target
  /\ (atoms.constraint.active /\ args.dihedral_angle.kind # "none") =>
       /\ atoms.constraint.target = args.dihedral_angle
       /\ target_angle = args.dihedral_angle
  /\ (outfile.written /\ UseConstraint) =>
       outfile.comment.constraint_source =
         (IF args.dihedral_angle.kind = "none" THEN "fixed_current"
          ELSE "user_specified")

\* a finished freeze-current run whose geometry has moved off the target
C1_Witness ==
  /\ pc = "done"
  /\ atoms.constraint.active
  /\ args.dihedral_angle.kind = "none"
  /\ dyn.nsteps > 0
  /\ IsNum(target_angle)
  /\ DihedralAt(atoms.positions, dihedral_indices_0based) # target_angle

\* The four 0-based indices name four different atoms of the structure.
ValidIndices(idx0, n) ==
  /\ \A m \in 1..Len(idx0) : 0 <= idx0[m] /\ idx0[m] < n
  /\ \A m1, m2 \in 1..Len(idx0) : m1 # m2 => idx0[m1] # idx0[m2]

\* C2: a run whose indices are out of bounds or not pairwise distinct ends in
\* an error at constraint construction: no oracle evaluation, no optimizer.
C2_InvalidIndicesRejected ==
  (UseConstraint /\ ~ValidIndices(ZeroBased(args.dihedral_indices), NInput)
     /\ pc # "start") =>
    (pc = "failed" /\ evals = 0 /\ dyn.state = "None")

ZeroNormal(p) ==
  \/ NormSq(Cross(Sub(p[2], p[1]), Sub(p[3], p[2]))) = 0
  \/ NormSq(Cross(Sub(p[3], p[2]), Sub(p[4], p[3]))) = 0

\* C3: on four points with a zero normal calc_dihedral reports a
\* DegenerateGeometryError; it never returns NaN.
C3_DegenerateRaises ==
  geom.pc = "measured" =>
    /\ ~IsNaN(geom.phi)
    /\ ZeroNormal(geom.p) => geom.phi.kind = "DegenerateGeometryError"

\* C4: a run that ended with an exception has not opened its output file;
\* the file exists only once the optimizer is in a terminal state and the
\* final energy (and angle) have been computed.
C4_NoOutputOnFailure ==
  /\ pc = "failed" => ~outfile.written
  /\ outfile.written =>
       /\ pc = "done"
       /\ error = ""
       /\ Terminal(dyn.state)
       /\ IsNum(final_energy)
       /\ UseConstraint => actual_angle_deg.kind # "none"

\* a run that failed in the middle of the optimisation
C4_Witness ==
  /\ pc = "failed"
  /\ error \in {"OracleFailure", "ValueError"}
  /\ evals > 1

HasStatus(c) ==
  \E m \in 1..Len(c.keys) : c.keys[m] \in {"status", "converged"}

\* C5: a run that stopped on the step budget still writes the full output,
\* and its report carries a status that tells it from a converged run.
C5_StatusReported ==
  (pc = "done" /\ dyn.state = "MaxStepsExceeded") =>
    /\ outfile.written
    /\ outfile.natoms = Len(atoms.positions)
    /\ IsNum(outfile.comment.energy)
    /\ HasStatus(outfile.comment)

\* C6 as stated: reversing the order of the points negates the angle.
C6_ReversalNegates ==
  (geom.pc = "measured" /\ IsNum(geom.phi)) =>
    (IsNum(geom.rev) /\ geom.rev.v = 0 - geom.phi.v)

\* C6 amended: for non-degenerate points calc_dihedral(p4, p3, p2, p1) is
\* the same angle, sign included, as calc_dihedral(p1, p2, p3, p4).
C6_ReversalInvariant ==
  (geom.pc = "measured" /\ IsNum(geom.phi)) => geom.rev = geom.phi

\* a measured dihedral that is neither 0 nor 180 degrees
C6_Witness ==
  /\ geom.pc = "measured"
  /\ IsNum(geom.phi)
  /\ geom.phi.v < 0
  /\ geom.phi.v # -90 * AngleUnit

InputSatisfiesCriterion ==
  MaxNormSq(InputForces, NInput) < Fmax * Fmax

\* first half of C8: an unconstrained run on an input whose forces satisfy
\* the criterion takes no step, keeps the positions, evaluates once, ends in
\* Converged and reports the energy of the input geometry.
ConvergedAtOnce ==
  (~UseConstraint /\ pc \in {"running", "done"} /\ InputSatisfiesCriterion) =>
    /\ dyn.nsteps = 0
    /\ evals = 1
    /\ atoms.positions = InputPositions
    /\ dyn.state \in {"Initialized", "Converged"}
    /\ pc = "done" =>
         /\ dyn.state = "Converged"
         /\ final_energy = Num(OracleEnergy(oracle, InputPositions))
         /\ outfile.comment.energy = final_energy

\* C8 as stated: the above, and a run on the output of a converged
\* unconstrained run ends at Converged right after its first evaluation.
C8_Idempotent ==
  /\ ConvergedAtOnce
  /\ (runs > 1 /\ pc \in {"running", "done", "failed"}) =>
       (pc # "failed" /\ dyn.nsteps = 0 /\ converged(forces))

\* C8 amended: the first half holds for every run, so a run on the written
\* output converges at once whenever the forces at the positions as written
\* (rounded to 8 decimals) satisfy the criterion.
C8_ConvergedAtOnce == ConvergedAtOnce

\* a run on the output of a converged run has itself converged at once
C8_Witness ==
  /\ runs > 1
  /\ pc = "done"
  /\ dyn.state = "Converged"
  /\ dyn.nsteps = 0
  /\ evals = 1

\* C9: only positions change: symbols, atom count, cell, pbc, charge and
\* spin of the working structure, of the clean copy and of the written file
\* are those of the input, and the constraint is never modified.
C9_OnlyPositionsChange ==
  /\ [](Started =>
          /\ atoms.symbols = args.input_file.symbols
          /\ Len(atoms.positions) = NInput
          /\ atoms.cell = args.input_file.cell
          /\ atoms.pbc = args.input_file.pbc
          /\ atoms.info = [charge |-> args.charge, spin |-> args.spin])
  /\ [](pc = "done" =>
          /\ clean_atoms.symbols = args.input_file.symbols
          /\ clean_atoms.cell = args.input_file.cell
          /\ clean_atoms.pbc = args.input_file.pbc
          /\ outfile.natoms = NInput
          /\ \A i \in 1..NInput :
               outfile.lines[i].symbol = args.input_file.symbols[i]
          /\ outfile.comment.charge = args.charge
          /\ outfile.comment.spin = args.spin)
  /\ [][atoms.constraint.active =>
          /\ atoms'.constraint = atoms.constraint
          /\ target_angle' = target_angle
          /\ dihedral_indices_0based' = dihedral_indices_0based]_vars

\* a finished constrained run that has moved the atoms
C9_Witness ==
  /\ pc = "done"
  /\ atoms.constraint.active
  /\ dyn.nsteps > 0
  /\ atoms.positions # InputPositions

ComponentCriterion(fr) ==
  fr.kind = "num" /\ MaxAbsComponent(fr.f, Len(fr.f)) <= Fmax
NormCriterion(fr) ==
  fr.kind = "num" /\ MaxNormSq(fr.f, Len(fr.f)) < Fmax * Fmax

\* a terminal optimizer takes no step and keeps the positions
TerminalIsFinal ==
  [][(Terminal(dyn.state) /\ pc' # "start") =>
       (dyn' = dyn /\ atoms'.positions = atoms.positions)]_vars

====
